---- MODULE Spec2Model ----
(***************************************************************************)
(* Client-side session / profile cache of MindSpend Labs.                  *)
(*                                                                         *)
(* The model follows the browser modules of the repository:                *)
(*   AuthManager  (frontend/utils/auth.js and the second copy of the       *)
(*                 module, unnamed/part_001)                               *)
(*   API          (the facade appended to frontend/utils/rls-debug.js)     *)
(* The hosted auth+database service and the companion deletion endpoint    *)
(* are collaborators: every request to them has a nondeterministic         *)
(* outcome (a result, an error result, or a thrown exception).             *)
(***************************************************************************)
EXTENDS Integers, Sequences, FiniteSets, TLC

(***************************************************************************)
(* Bounds of the model.                                                    *)
(***************************************************************************)
MaxPending == 1      \* auth-state notifications not yet delivered
MaxMetrics == 1      \* rows of the metrics table
MaxInbox == 1        \* storage notifications a tab has not yet handled

(***************************************************************************)
(* JavaScript values.  Every value is a record so that any two values can  *)
(* be compared.                                                            *)
(***************************************************************************)
Null == [k |-> "null"]
Undefined == [k |-> "undefined"]

Users == {"u1", "u2"}

EmailOf(id) == IF id = "u1" THEN "a@x.com" ELSE "bob@example.com"
UsernameOf(id) == IF id = "u1" THEN "alice" ELSE "bob"

UserObj(id) == [k |-> "user", id |-> id, email |-> EmailOf(id)]

ProfileRow(id, first) ==
    [k |-> "profile", id |-> id, email |-> EmailOf(id),
     username |-> UsernameOf(id), first_name |-> first, last_name |-> ""]

Str(s) == [k |-> "string", s |-> s]

(***************************************************************************)
(* JSON.stringify / JSON.parse and the string coercion of                  *)
(* localStorage.setItem.  A stored text is [json |-> v] (the JSON text of  *)
(* v) or [raw |-> s] (a string that is not produced by stringify).         *)
(* JSON.stringify(undefined) is undefined, which setItem stores as the     *)
(* text "undefined"; JSON.parse of a raw text throws.                      *)
(***************************************************************************)
Absent == [k |-> "absent"]          \* getItem(key) === null

JSONstringify(v) == IF v = Undefined THEN Undefined ELSE [json |-> v]

ToStorageText(x) == IF x = Undefined THEN [raw |-> "undefined"] ELSE x

ParseThrows(t) == "json" \notin DOMAIN t

JSONparse(t) == t.json

(***************************************************************************)
(* localStorage keys.                                                      *)
(***************************************************************************)
keysToDelete ==
    {"mindspend_firstName", "mindspend_lastName", "mindspend_username",
     "mindspend_email", "mindspend_token", "mindspend_refreshToken",
     "mindspend_analysis", "mindspend_unified_analysis",
     "mindspend_transactions", "mindspend_settings"}

Keys == {"auth_user", "userProfile", "currentUser", "auth_return_url"}
            \cup keysToDelete

EmptyStore == [key \in Keys |-> Absent]

setItem(store, key, text) == [store EXCEPT ![key] = ToStorageText(text)]

removeItem(store, key) == [store EXCEPT ![key] = Absent]

RECURSIVE removeAll(_, _)
removeAll(store, keys) ==
    IF keys = {} THEN store
    ELSE LET key == CHOOSE x \in keys : TRUE
         IN  removeAll(removeItem(store, key), keys \ {key})

(***************************************************************************)
(* Collaborator outcomes and messages.                                     *)
(***************************************************************************)
MsgInvalid == "Invalid login credentials"
MsgRLS == "new row violates row-level security policy"
MsgDuplicate == "duplicate key value violates unique constraint"
MsgSame == "Password is the same as the old password"
MsgWeak == "Password should be at least 6 characters"
MsgNetwork == "Network request failed"
MsgFetch == "Failed to fetch"
MsgBoom == "boom"
MsgRegistered == "User already registered"
MsgNotAllowed == "User not allowed"
MsgQuota == "QuotaExceededError"
MsgNoRow == "PGRST116"

Ok == [r |-> "ok", msg |-> ""]
Err(m) == [r |-> "error", msg |-> m]
Thrown(m) == [r |-> "throw", msg |-> m]

ThrowOutcomes == {Thrown(MsgFetch)}
AnyThrowOutcomes == {Thrown(MsgFetch), Thrown(MsgBoom)}

AuthOutcomes == {Ok, Err(MsgInvalid)} \cup ThrowOutcomes
SignUpOutcomes == {Ok, Err(MsgRegistered)} \cup ThrowOutcomes
AdminOutcomes == {Ok, Err(MsgNotAllowed)} \cup ThrowOutcomes
InsertOutcomes == {Ok, Err(MsgRLS), Err(MsgDuplicate), Err(MsgBoom)} \cup ThrowOutcomes
TableOutcomes == {Ok, Err(MsgBoom)} \cup ThrowOutcomes
UpdateUserOutcomes ==
    {Ok, Err(MsgSame), Err(MsgWeak), Err(MsgNetwork), Err(MsgBoom)} \cup AnyThrowOutcomes
BadBody == [r |-> "badjson", msg |-> "Unexpected token < in JSON"]
BackendOutcomes == {Ok, Err("500"), BadBody} \cup ThrowOutcomes

(* String.prototype.includes on the lower-cased message, for the needles  *)
(* the code looks for.                                                     *)
Includes(msg, needle) ==
    <<msg, needle>> \in
        {<<MsgRLS, "row-level security">>,
         <<MsgDuplicate, "duplicate">>,
         <<MsgSame, "same">>, <<MsgSame, "password">>,
         <<MsgWeak, "password">>,
         <<MsgNetwork, "network">>,
         <<MsgFetch, "fetch">>}

(* The outcomes a request can have when it is issued; a request that is   *)
(* not issued has none, and the placeholder stands for it.                *)
Drawn(issued, outcomes, placeholder) == IF issued THEN outcomes ELSE {placeholder}

(* A request issued to a collaborator: what was called, with which        *)
(* argument, and how it came back.                                         *)
Call(fn, arg, out) == [fn |-> fn, arg |-> arg, res |-> out.r, msg |-> out.msg]

Event(type, detail) == [type |-> type, detail |-> detail]

VARIABLES
    impl,       \* which copy of the AuthManager module the page loaded
    sbReady,    \* window.supabase is a client (not null)
    sess,       \* collaborator: the user of the active session, or Null
    profiles,   \* collaborator: table profiles, one row per id or Null
    metrics,    \* collaborator: table metrics, set of [id, user_id]
    ls,         \* localStorage
    ss,         \* sessionStorage holds some item
    authq,      \* auth-state notifications not yet delivered to the listener
    lctx,       \* per signed-in user: position and locals of a login() in flight
    last,       \* the operation that the last step completed
    ret,        \* what that operation returned
    calls,      \* the collaborator requests that invocation issued
    evts,       \* the window events that invocation dispatched
    seen,       \* per tab: detail of the last storageUpdated event observed
    inbox,      \* per tab: platform storage notifications not yet delivered
    nav         \* the Navigation object of the page

vars == <<impl, sbReady, sess, profiles, metrics, ls, ss, authq,
          lctx, last, ret, calls, evts, seen, inbox, nav>>

\* the state of the cache store's tabs and of the navigation bar
pageVars == <<seen, inbox, nav>>

\* the tabs of the browser that share localStorage
Tabs == {"A", "B"}

\* no storageUpdated event has been observed yet
NoEvent == [k |-> "noEvent"]

\* Navigation as the script defines it: user: null, displayName not set,
\* nothing rendered
NavigationObject == [user |-> Null, displayName |-> Undefined, userName |-> Undefined]

Idle == [pc |-> "idle", puser |-> Null, calls |-> <<>>]

(***************************************************************************)
(* Storage left by pages visited earlier: nothing, or the display fields.  *)
(***************************************************************************)
VisitedStore ==
    [key \in Keys |->
        IF key = "mindspend_firstName" THEN [raw |-> "Al"]
        ELSE IF key = "mindspend_username" THEN [raw |-> "alice"]
        ELSE IF key = "mindspend_settings" THEN [json |-> Str("dark")]
        ELSE Absent]

Init ==
    /\ impl \in {"auth.js", "part_001"}
    /\ sbReady \in BOOLEAN
    /\ sess = Null
    /\ profiles = [u \in Users |-> IF u = "u1" THEN ProfileRow(u, "") ELSE Null]
    /\ metrics = {}
    /\ ls \in {EmptyStore, VisitedStore}
    /\ ss = TRUE
    /\ authq = <<>>
    /\ lctx = [u \in Users |-> Idle]
    /\ last = [op |-> "init", path |-> "none", anon |-> TRUE]
    /\ ret = Undefined
    /\ calls = <<>>
    /\ evts = <<>>
    /\ seen = [t \in Tabs |-> NoEvent]
    /\ inbox = [t \in Tabs |-> <<>>]
    /\ nav = NavigationObject

(***************************************************************************)
(* AuthManager: local cache helpers.                                       *)
(***************************************************************************)
\* getSupabase(): the client, or null
getSupabase == IF sbReady THEN "client" ELSE "null"

\* clearCurrentUser(): the store afterwards
clearCurrentUser(store) ==
    removeItem(removeItem(store, "auth_user"), "userProfile")

\* clearCurrentUser that dispatches nothing
clearCurrentUserEvents_none == <<>>

\* the events clearCurrentUser dispatches
clearCurrentUserEvents == <<Event("authUserCleared", Undefined)>>

\* storeUserData writing the user under the key clearCurrentUser removes
storeUserData_authUserKey(store, user, profile) ==
    setItem(setItem(store, "auth_user", JSONstringify(user)),
            "userProfile", JSONstringify(profile))

\* storeUserData(user, profile): the store afterwards
storeUserData(store, user, profile) ==
    setItem(setItem(store, "currentUser", JSONstringify(user)),
            "userProfile", JSONstringify(profile))

\* getCachedUserData()
getCachedUserData(store) ==
    [user |-> IF store["currentUser"] # Absent
              THEN JSONparse(store["currentUser"]) ELSE Null,
     profile |-> IF store["userProfile"] # Absent
                 THEN JSONparse(store["userProfile"]) ELSE Null]

\* getCurrentUserLocal()
getCurrentUserLocal(store) ==
    IF store["auth_user"] # Absent /\ ~ParseThrows(store["auth_user"])
    THEN JSONparse(store["auth_user"]) ELSE Null

\* checkAuth()
checkAuth(store) == getCurrentUserLocal(store) # Null

(***************************************************************************)
(* Collaborator: effect of sign-in / sign-out on the session and on the    *)
(* pending auth-state notifications.                                       *)
(***************************************************************************)
NotInitialized == [success |-> FALSE, error |-> "Supabase not initialized"]

\* a handler whose catch block lets the exception go: the promise rejects
catchEnvelope_rethrows(msg) == [rejected |-> TRUE, reason |-> msg]

\* the promise of a handler resolved with this value (it did not reject)
IsResolved(result) == "rejected" \notin DOMAIN result

\* catch (e) { return { success: false, error: e.message }; }
catchEnvelope(msg) == [success |-> FALSE, error |-> msg]

\* what the last step was: the operation it completed and the return
\* statement it left through ("step" when the operation is still in flight)
Last(op, path) == [op |-> op, path |-> path, anon |-> (sess = Null)]

\* the same, with the argument the caller passed
LastOf(op, path, input) ==
    [op |-> op, path |-> path, anon |-> (sess = Null), input |-> input]

Notify(q, event, user) == Append(q, [event |-> event, user |-> user])

CanNotify == Len(authq) < MaxPending

\* setCurrentUser(userData)
SetCurrentUser(u, full) ==
    /\ IF full
       THEN /\ ls' = ls
            /\ evts' = <<>>
       ELSE /\ ls' = setItem(ls, "auth_user", JSONstringify(UserObj(u)))
            /\ evts' = <<Event("authUserUpdated", UserObj(u))>>
    /\ last' = Last("setCurrentUser", "ok")
    /\ ret' = Undefined
    /\ calls' = <<>>
    /\ UNCHANGED <<pageVars, impl, sbReady, sess, profiles, metrics, ss, authq, lctx>>

\* the listener installed by initialize(), run for one pending notification
AuthStateListener ==
    /\ authq # <<>>
    /\ LET n == Head(authq)
       IN  /\ authq' = Tail(authq)
           /\ IF n.event = "SIGNED_IN" /\ n.user # Null
              THEN /\ ls' = storeUserData(ls, n.user, Null)
                   /\ evts' = <<>>
              ELSE IF n.event = "SIGNED_OUT"
              THEN /\ ls' = clearCurrentUser(ls)
                   /\ evts' = clearCurrentUserEvents
              ELSE /\ ls' = ls
                   /\ evts' = <<>>
    /\ last' = Last("authStateListener", "ok")
    /\ ret' = Undefined
    /\ calls' = <<>>
    /\ UNCHANGED <<pageVars, impl, sbReady, sess, profiles, metrics, ss, lctx>>

\* logout()
Logout(signOut) ==
    /\ sbReady => CanNotify
    /\ IF getSupabase = "null"
       THEN /\ ret' = NotInitialized
            /\ last' = Last("logout", "notInitialized")
            /\ calls' = <<>>
            /\ evts' = <<>>
            /\ UNCHANGED <<ls, sess, authq>>
       ELSE /\ calls' = <<Call("auth.signOut", Null, signOut)>>
            /\ IF signOut.r = "ok"
               THEN /\ sess' = Null
                    /\ authq' = Notify(authq, "SIGNED_OUT", Null)
                    /\ ls' = clearCurrentUser(ls)
                    /\ evts' = clearCurrentUserEvents
                                 \o <<Event("authUserCleared", Undefined)>>
                    /\ ret' = [success |-> TRUE]
                    /\ last' = Last("logout", "ok")
               ELSE /\ ret' = catchEnvelope(signOut.msg)
                    /\ last' = Last("logout", "catch")
                    /\ evts' = <<>>
                    /\ UNCHANGED <<ls, sess, authq>>
    /\ UNCHANGED <<pageVars, impl, sbReady, profiles, metrics, ss, lctx>>

(***************************************************************************)
(* login(email, password).  The collaborator requests of one invocation    *)
(* are separate steps: other handlers of the page run between them.        *)
(***************************************************************************)
\* .from('profiles').select('*').eq('id', id).single(): the result
SelectSingle(id, out) ==
    IF out = Ok /\ profiles[id] = Null THEN Err(MsgNoRow) ELSE out

\* the last synchronous part of login: storeUserData, dispatch, return
LoginFinish(u, profile, full) ==
    LET user == UserObj(u)
    IN  /\ IF full
           THEN /\ ls' = ls
                /\ evts' = <<>>
                /\ ret' = [success |-> FALSE, error |-> MsgQuota]
                /\ last' = Last("login", "catch")
           ELSE /\ ls' = storeUserData(ls, user, profile)
                /\ evts' = <<Event("authUserUpdated",
                                   [user |-> user, profile |-> profile])>>
                /\ ret' = [success |-> TRUE, user |-> user, profile |-> profile]
                /\ last' = Last("login", "ok")

\* login that only leaves early when signInWithPassword throws
signInFailed_ignoresError(signIn) == signIn.r = "throw"

\* whether login returns right after signInWithPassword
signInFailed(signIn) == signIn.r # "ok"

\* login up to and including signInWithPassword
LoginSignIn(u, signIn) ==
    /\ lctx[u].pc = "idle"
    /\ sbReady => CanNotify
    /\ IF getSupabase = "null"
       THEN /\ ret' = NotInitialized
            /\ calls' = <<>>
            /\ last' = Last("login", "notInitialized")
            /\ UNCHANGED <<sess, authq, lctx>>
       ELSE LET c == <<Call("auth.signInWithPassword", UserObj(u), signIn)>>
            IN  IF ~signInFailed(signIn)
                THEN /\ sess' = IF signIn.r = "ok" THEN UserObj(u) ELSE sess
                     /\ authq' = IF signIn.r = "ok"
                                 THEN Notify(authq, "SIGNED_IN", UserObj(u)) ELSE authq
                     /\ lctx' = [lctx EXCEPT ![u] =
                                    [pc |-> "getUser", puser |-> Null, calls |-> c]]
                     /\ last' = Last("login", "step")
                     /\ ret' = Undefined
                     /\ calls' = <<>>
                ELSE /\ ret' = [success |-> FALSE, error |-> signIn.msg]
                     /\ calls' = c
                     /\ last' = Last("login", IF signIn.r = "error" THEN "error" ELSE "catch")
                     /\ UNCHANGED <<sess, authq, lctx>>
    /\ evts' = <<>>
    /\ UNCHANGED <<pageVars, impl, sbReady, profiles, metrics, ls, ss>>

\* getCurrentProfile(), first half: getCurrentUser() -> sb.auth.getUser()
LoginGetUser(u, getUser, full) ==
    /\ lctx[u].pc = "getUser"
    /\ LET c == Append(lctx[u].calls, Call("auth.getUser", Null, getUser))
           user == IF getUser.r = "ok" THEN sess ELSE Null
       IN  IF user = Null
           THEN /\ LoginFinish(u, Null, full)
                /\ calls' = c
                /\ lctx' = [lctx EXCEPT ![u] = Idle]
           ELSE /\ lctx' = [lctx EXCEPT ![u].pc = "select",
                                        ![u].puser = user, ![u].calls = c]
                /\ last' = Last("login", "step")
                /\ ret' = Undefined
                /\ calls' = <<>>
                /\ evts' = <<>>
                /\ ls' = ls
    /\ UNCHANGED <<pageVars, impl, sbReady, sess, profiles, metrics, ss, authq>>

\* getCurrentProfile(), second half: the select, then the rest of login
LoginSelect(u, select, full) ==
    /\ lctx[u].pc = "select"
    /\ LET id == lctx[u].puser.id
           out == SelectSingle(id, select)
           profile == IF out.r = "ok" THEN profiles[id] ELSE Null
       IN  /\ LoginFinish(u, profile, full)
           /\ calls' = Append(lctx[u].calls,
                              Call("profiles.select", [id |-> id], out))
    /\ lctx' = [lctx EXCEPT ![u] = Idle]
    /\ UNCHANGED <<pageVars, impl, sbReady, sess, profiles, metrics, ss, authq>>

(***************************************************************************)
(* register(email, password, username, firstName, lastName)                *)
(***************************************************************************)
MsgPolicy == "Profile creation blocked by database policy. This is likely an RLS configuration issue. Check frontend/RLS_COMPLETE_FIX.md for solution."
MsgAlready == "This email is already registered."

\* the message register reports for a failed profile insert
userMessage(msg) ==
    IF impl = "part_001" THEN msg
    ELSE IF Includes(msg, "row-level security") THEN MsgPolicy
    ELSE IF Includes(msg, "duplicate") THEN MsgAlready
    ELSE msg

\* whether register calls sb.auth.getSession() after signUp
registerWaitsForSession == impl = "auth.js"

\* whether register deletes the identity after a failed profile insert
registerCleansUp == impl = "auth.js"

Register(u, signUp, withSession, getSession, insert, del) ==
    /\ sbReady => CanNotify
    /\ insert = Ok => profiles[u] = Null
    /\ evts' = <<>>
    /\ IF getSupabase = "null"
       THEN /\ ret' = NotInitialized
            /\ last' = Last("register", "notInitialized")
            /\ calls' = <<>>
            /\ UNCHANGED <<sess, authq, profiles>>
       ELSE LET user == UserObj(u)
                c1 == <<Call("auth.signUp", user, signUp)>>
                c2 == IF registerWaitsForSession
                      THEN Append(c1, Call("auth.getSession", Null, getSession))
                      ELSE c1
                c3 == Append(c2, Call("profiles.insert", [id |-> u], insert))
                c4 == IF registerCleansUp
                      THEN Append(c3, Call("auth.admin.deleteUser", [id |-> u], del))
                      ELSE c3
                sess1 == IF withSession THEN user ELSE sess
                q1 == IF withSession THEN Notify(authq, "SIGNED_IN", user) ELSE authq
            IN  IF signUp.r # "ok"
                THEN /\ ret' = [success |-> FALSE, error |-> signUp.msg]
                     /\ last' = Last("register", IF signUp.r = "error" THEN "error" ELSE "catch")
                     /\ calls' = c1
                     /\ UNCHANGED <<sess, authq, profiles>>
                ELSE IF registerWaitsForSession /\ getSession.r = "throw"
                THEN /\ ret' = [success |-> FALSE, error |-> getSession.msg]
                     /\ last' = Last("register", "catch")
                     /\ calls' = c2
                     /\ sess' = sess1
                     /\ authq' = q1
                     /\ UNCHANGED profiles
                ELSE IF insert.r = "ok"
                THEN /\ ret' = [success |-> TRUE, user |-> user]
                     /\ last' = Last("register", "ok")
                     /\ calls' = c3
                     /\ sess' = sess1
                     /\ authq' = q1
                     /\ profiles' = [profiles EXCEPT ![u] = ProfileRow(u, "")]
                ELSE IF insert.r = "throw"
                THEN /\ ret' = [success |-> FALSE, error |-> insert.msg]
                     /\ last' = Last("register", "catch")
                     /\ calls' = c3
                     /\ sess' = sess1
                     /\ authq' = q1
                     /\ UNCHANGED profiles
                ELSE /\ ret' = [success |-> FALSE, error |-> userMessage(insert.msg)]
                     /\ last' = Last("register", "profileFailed")
                     /\ calls' = c4
                     /\ IF registerCleansUp /\ del.r = "ok"
                        THEN sess' = (IF sess1 = user THEN Null ELSE sess1)
                        ELSE sess' = sess1
                     /\ authq' = q1
                     /\ UNCHANGED profiles
    /\ UNCHANGED <<pageVars, impl, sbReady, metrics, ls, ss, lctx>>

(***************************************************************************)
(* getCurrentUser(): the user it returns for the outcome of getUser, and   *)
(* the request it issues (none without a client).                          *)
(***************************************************************************)
getCurrentUser(getUser) ==
    IF getSupabase = "null" THEN Null
    ELSE IF getUser.r = "ok" THEN sess ELSE Null

getCurrentUserCalls(getUser) ==
    IF getSupabase = "null" THEN <<>> ELSE <<Call("auth.getUser", Null, getUser)>>

\* the envelope without the flag, as API.getProfile returns it
NotAuthenticated_withoutFlag == [success |-> FALSE, error |-> "Not authenticated"]

NotAuthenticated ==
    [success |-> FALSE, error |-> "Not authenticated", requiresLogin |-> TRUE]

(***************************************************************************)
(* changePassword(currentPassword, newPassword)                            *)
(***************************************************************************)
MsgLoginAgain == "Not authenticated. Please login again."
MsgIncorrect == "Current password is incorrect"
MsgIncorrectRetry == "Current password is incorrect. Please try again."
MsgDifferent == "New password must be different from your current password"
MsgRequirements == "Password update failed. Please ensure your password meets all requirements."
MsgConnection == "Connection error. Please check your internet and try again."
MsgNetworkConnection == "Network connection error. Please check your internet connection."

\* the envelope of the not-authenticated return of changePassword / deleteAccount
notAuthenticatedLong ==
    [success |-> FALSE, error |-> MsgLoginAgain, requiresLogin |-> TRUE]

changePasswordNotAuthenticated ==
    IF impl = "auth.js" THEN notAuthenticatedLong ELSE NotAuthenticated

\* the message reported when the verification sign-in fails
verificationMessage == IF impl = "auth.js" THEN MsgIncorrectRetry ELSE MsgIncorrect

\* the message reported for a failed updateUser
updateErrorMessage(msg) ==
    IF impl = "part_001" THEN msg
    ELSE IF Includes(msg, "same") THEN MsgDifferent
    ELSE IF Includes(msg, "password") THEN MsgRequirements
    ELSE IF Includes(msg, "network") \/ Includes(msg, "connection") THEN MsgConnection
    ELSE msg

\* the message the catch block of changePassword reports
changePasswordCatchMessage(msg) ==
    IF impl = "part_001" THEN msg
    ELSE IF Includes(msg, "network") \/ Includes(msg, "fetch") THEN MsgNetworkConnection
    ELSE msg

\* changePassword that goes on to updateUser after a failed verification
stopsAfterFailedVerification_never(signIn) == FALSE

\* whether the verification failure ends the call before updateUser
stopsAfterFailedVerification(signIn) == signIn.r = "error"

ChangePassword(getUser, signIn, update) ==
    /\ sbReady => CanNotify
    /\ evts' = <<>>
    /\ IF getSupabase = "null"
       THEN /\ ret' = NotInitialized
            /\ last' = Last("changePassword", "notInitialized")
            /\ calls' = <<>>
            /\ UNCHANGED authq
       ELSE LET c1 == <<Call("auth.getUser", Null, getUser)>>
                user == IF getUser.r = "ok" THEN sess ELSE Null
                c2 == Append(c1, Call("auth.signInWithPassword", user, signIn))
                c3 == Append(c2, Call("auth.updateUser", Null, update))
            IN  IF impl = "auth.js" /\ getUser.r = "throw"
                THEN /\ ret' = [success |-> FALSE,
                                error |-> changePasswordCatchMessage(getUser.msg)]
                     /\ last' = Last("changePassword", "catch")
                     /\ calls' = c1
                     /\ UNCHANGED authq
                ELSE IF user = Null
                THEN /\ ret' = changePasswordNotAuthenticated
                     /\ last' = Last("changePassword", "notAuthenticated")
                     /\ calls' = c1
                     /\ UNCHANGED authq
                ELSE IF signIn.r = "throw"
                THEN /\ ret' = [success |-> FALSE,
                                error |-> changePasswordCatchMessage(signIn.msg)]
                     /\ last' = Last("changePassword", "catch")
                     /\ calls' = c2
                     /\ UNCHANGED authq
                ELSE IF stopsAfterFailedVerification(signIn)
                THEN /\ ret' = [success |-> FALSE, error |-> verificationMessage]
                     /\ last' = Last("changePassword", "verifyFailed")
                     /\ calls' = c2
                     /\ UNCHANGED authq
                ELSE /\ calls' = c3
                     /\ authq' = IF signIn.r = "ok"
                                 THEN Notify(authq, "SIGNED_IN", user) ELSE authq
                     /\ IF update.r = "throw"
                        THEN /\ ret' = [success |-> FALSE,
                                        error |-> changePasswordCatchMessage(update.msg)]
                             /\ last' = Last("changePassword", "catch")
                        ELSE IF update.r = "error"
                        THEN /\ ret' = [success |-> FALSE,
                                        error |-> updateErrorMessage(update.msg)]
                             /\ last' = Last("changePassword", "updateFailed")
                        ELSE /\ ret' = IF impl = "auth.js"
                                       THEN [success |-> TRUE,
                                             message |-> "Password updated successfully"]
                                       ELSE [success |-> TRUE]
                             /\ last' = Last("changePassword", "ok")
    /\ UNCHANGED <<pageVars, impl, sbReady, sess, profiles, metrics, ls, ss, lctx>>

(***************************************************************************)
(* updateProfile(profileData)                                              *)
(***************************************************************************)
FirstNames == {"Al"}

UpdateProfile(first, getUser, update) ==
    /\ evts' = <<>>
    /\ IF getSupabase = "null"
       THEN /\ ret' = NotInitialized
            /\ last' = Last("updateProfile", "notInitialized")
            /\ calls' = <<>>
            /\ UNCHANGED profiles
       ELSE LET user == getCurrentUser(getUser)
                c1 == getCurrentUserCalls(getUser)
            IN  IF user = Null
                THEN /\ ret' = NotAuthenticated
                     /\ last' = Last("updateProfile", "notAuthenticated")
                     /\ calls' = c1
                     /\ UNCHANGED profiles
                ELSE /\ calls' = Append(c1, Call("profiles.update",
                                          [id |-> user.id, first_name |-> first], update))
                     /\ IF update.r = "ok"
                        THEN /\ ret' = [success |-> TRUE]
                             /\ last' = Last("updateProfile", "ok")
                             /\ profiles' =
                                  IF profiles[user.id] = Null THEN profiles
                                  ELSE [profiles EXCEPT ![user.id].first_name = first]
                        ELSE /\ ret' = [success |-> FALSE, error |-> update.msg]
                             /\ last' = Last("updateProfile",
                                    IF update.r = "error" THEN "error" ELSE "catch")
                             /\ UNCHANGED profiles
    /\ UNCHANGED <<pageVars, impl, sbReady, sess, metrics, ls, ss, authq, lctx>>

(***************************************************************************)
(* deleteAccount(password), present in auth.js only                        *)
(***************************************************************************)
\* whether a failed backend deletion ends the call before the local cleanup
returnsOnBackendFailure_never(backend) == FALSE

returnsOnBackendFailure(backend) == backend.r # "ok"

\* Step 4 of deleteAccount: the store afterwards
localCleanup(store) == removeAll(clearCurrentUser(store), keysToDelete)

\* getAccessToken(): session?.access_token || null, null when getSession failed
getAccessToken(getSession) ==
    IF getSupabase = "null" \/ getSession.r # "ok" \/ sess = Null THEN Null
    ELSE [k |-> "access_token", of |-> sess.id]

\* a request that authenticates with the password the caller passed
Authorization_password(password, token) == [bearer |-> password]

\* the Authorization header of the backend request: Bearer <token>
Authorization(password, token) == [bearer |-> token]

\* what one call deleteAccount(password) does in the present state, for the
\* outcomes of the requests it issues
deleteAccount(password, getUser, getSession, backend, signOut) ==
    LET same == [sess |-> sess, profiles |-> profiles, ls |-> ls, ss |-> ss,
                 authq |-> authq, evts |-> <<>>]
        c1 == <<Call("auth.getUser", Null, getUser)>>
        user == IF getUser.r = "ok" THEN sess ELSE Null
        c2 == Append(c1, Call("auth.getSession", Null, getSession))
        c3 == Append(c2, Call("fetch DELETE /api/user/account",
                              Authorization(password, getAccessToken(getSession)),
                              backend))
        c4 == Append(c3, Call("auth.signOut", Null, signOut))
    IN  IF getSupabase = "null"
        THEN [ret |-> NotInitialized, path |-> "notInitialized", calls |-> <<>>] @@ same
        ELSE IF getUser.r = "throw"
        THEN [ret |-> [success |-> FALSE, error |-> getUser.msg],
              path |-> "catch", calls |-> c1] @@ same
        ELSE IF user = Null
        THEN [ret |-> notAuthenticatedLong,
              path |-> "notAuthenticated", calls |-> c1] @@ same
        ELSE IF returnsOnBackendFailure(backend)
        THEN [ret |-> [success |-> FALSE,
                       error |-> IF backend.r = "error"
                                 THEN "Failed to delete account from backend"
                                 ELSE "Failed to connect to deletion service"],
              path |-> "backendFailed", calls |-> c3] @@ same
        ELSE [ret |-> [success |-> TRUE, message |-> "Account deleted successfully"],
              path |-> "ok",
              calls |-> c4,
              evts |-> clearCurrentUserEvents,
              sess |-> IF backend.r = "ok" \/ signOut.r = "ok" THEN Null ELSE sess,
              profiles |-> IF backend.r = "ok"
                           THEN [profiles EXCEPT ![user.id] = Null]
                           ELSE profiles,
              authq |-> IF signOut.r = "ok"
                        THEN Notify(authq, "SIGNED_OUT", Null) ELSE authq,
              ls |-> localCleanup(ls),
              ss |-> FALSE]

DeleteAccount(password, getUser, getSession, backend, signOut) ==
    /\ impl = "auth.js"
    /\ sbReady => CanNotify
    /\ LET done == deleteAccount(password, getUser, getSession, backend, signOut)
       IN  /\ ret' = done.ret
           /\ calls' = done.calls
           /\ evts' = done.evts
           /\ sess' = done.sess
           /\ profiles' = done.profiles
           /\ authq' = done.authq
           /\ ls' = done.ls
           /\ ss' = done.ss
           /\ last' = LastOf("deleteAccount", done.path,
                             [password |-> password, getUser |-> getUser,
                              getSession |-> getSession, backend |-> backend,
                              signOut |-> signOut])
    /\ UNCHANGED <<pageVars, impl, sbReady, metrics, lctx>>

(***************************************************************************)
(* API facade (window.API)                                                 *)
(***************************************************************************)
\* the envelope of API.getProfile when there is no user
getProfileNotAuthenticated == [success |-> FALSE, error |-> "Not authenticated"]

ProfileNotFound == [success |-> FALSE, error |-> "Profile not found"]

\* API.getProfile()
GetProfile(getUser1, getUser2, select) ==
    /\ evts' = <<>>
    /\ LET user == getCurrentUser(getUser1)
           c1 == getCurrentUserCalls(getUser1)
           puser == getCurrentUser(getUser2)
           c2 == c1 \o getCurrentUserCalls(getUser2)
           out == IF puser = Null THEN Ok ELSE SelectSingle(puser.id, select)
           c3 == IF puser = Null THEN c2
                 ELSE Append(c2, Call("profiles.select", [id |-> puser.id], out))
           profile == IF puser # Null /\ out.r = "ok" THEN profiles[puser.id] ELSE Null
       IN  IF user = Null
           THEN /\ ret' = getProfileNotAuthenticated
                /\ last' = Last("getProfile", "notAuthenticated")
                /\ calls' = c1
           ELSE IF profile = Null
           THEN /\ ret' = ProfileNotFound
                /\ last' = Last("getProfile", "notFound")
                /\ calls' = c3
           ELSE /\ ret' = [success |-> TRUE,
                           user |-> [k |-> "merged", user |-> user, profile |-> profile]]
                /\ last' = Last("getProfile", "ok")
                /\ calls' = c3
    /\ UNCHANGED <<pageVars, impl, sbReady, sess, profiles, metrics, ls, ss, authq, lctx>>

MetricIds == 1..MaxMetrics

\* API.getMetrics()
GetMetrics(getUser, select) ==
    /\ evts' = <<>>
    /\ LET user == getCurrentUser(getUser)
           c1 == getCurrentUserCalls(getUser)
       IN  IF user = Null
           THEN /\ ret' = NotAuthenticated
                /\ last' = Last("getMetrics", "notAuthenticated")
                /\ calls' = c1
           ELSE /\ calls' = Append(c1, Call("metrics.select", [user_id |-> user.id], select))
                /\ IF select.r = "ok"
                   THEN /\ ret' = [success |-> TRUE,
                                   data |-> {m \in metrics : m.user_id = user.id}]
                        /\ last' = Last("getMetrics", "ok")
                   ELSE /\ ret' = [success |-> FALSE, error |-> select.msg]
                        /\ last' = Last("getMetrics",
                               IF select.r = "error" THEN "error" ELSE "catch")
    /\ UNCHANGED <<pageVars, impl, sbReady, sess, profiles, metrics, ls, ss, authq, lctx>>

\* the user_id of the row addMetric inserts, were it read from metricData
metricUserId_fromMetricData(user, claimed) == claimed

\* user_id: user.id in the row addMetric inserts
metricUserId(user, claimed) == user.id

\* API.addMetric(metricData); claimed is a user_id the caller put into metricData
AddMetric(id, claimed, getUser, insert) ==
    /\ evts' = <<>>
    /\ insert = Ok => /\ Cardinality(metrics) < MaxMetrics
                      /\ \A m \in metrics : m.id # id
    /\ LET user == getCurrentUser(getUser)
           c1 == getCurrentUserCalls(getUser)
           uid == metricUserId(user, claimed)
       IN  IF user = Null
           THEN /\ ret' = NotAuthenticated
                /\ last' = LastOf("addMetric", "notAuthenticated", [user_id |-> claimed])
                /\ calls' = c1
                /\ UNCHANGED metrics
           ELSE /\ calls' = Append(c1, Call("metrics.insert", [user_id |-> uid], insert))
                /\ IF insert.r = "ok"
                   THEN /\ ret' = [success |-> TRUE,
                                   data |-> [id |-> id, user_id |-> uid]]
                        /\ last' = LastOf("addMetric", "ok", [user_id |-> claimed])
                        /\ metrics' = metrics \cup {[id |-> id, user_id |-> uid]}
                   ELSE /\ ret' = [success |-> FALSE, error |-> insert.msg]
                        /\ last' = LastOf("addMetric",
                               IF insert.r = "error" THEN "error" ELSE "catch",
                               [user_id |-> claimed])
                        /\ UNCHANGED metrics
    /\ UNCHANGED <<pageVars, impl, sbReady, sess, profiles, ls, ss, authq, lctx>>

\* API.deleteMetric(metricId)
DeleteMetric(id, getUser, delete) ==
    /\ evts' = <<>>
    /\ LET user == getCurrentUser(getUser)
           c1 == getCurrentUserCalls(getUser)
       IN  IF user = Null
           THEN /\ ret' = NotAuthenticated
                /\ last' = Last("deleteMetric", "notAuthenticated")
                /\ calls' = c1
                /\ UNCHANGED metrics
           ELSE /\ calls' = Append(c1, Call("metrics.delete",
                                            [id |-> id, user_id |-> user.id], delete))
                /\ IF delete.r = "ok"
                   THEN /\ ret' = [success |-> TRUE]
                        /\ last' = Last("deleteMetric", "ok")
                        /\ metrics' = {m \in metrics :
                                          ~(m.id = id /\ m.user_id = user.id)}
                   ELSE /\ ret' = [success |-> FALSE, error |-> delete.msg]
                        /\ last' = Last("deleteMetric",
                               IF delete.r = "error" THEN "error" ELSE "catch")
                        /\ UNCHANGED metrics
    /\ UNCHANGED <<pageVars, impl, sbReady, sess, profiles, ls, ss, authq, lctx>>

\* resetPassword(email), fronted by API.requestPasswordReset
ResetPassword(reset) ==
    /\ evts' = <<>>
    /\ IF getSupabase = "null"
       THEN /\ ret' = NotInitialized
            /\ last' = Last("resetPassword", "notInitialized")
            /\ calls' = <<>>
       ELSE /\ calls' = <<Call("auth.resetPasswordForEmail", Null, reset)>>
            /\ IF reset.r = "ok"
               THEN /\ ret' = [success |-> TRUE]
                    /\ last' = Last("resetPassword", "ok")
               ELSE IF reset.r = "error"
               THEN /\ ret' = [success |-> FALSE, error |-> reset.msg]
                    /\ last' = Last("resetPassword", "error")
               ELSE /\ ret' = catchEnvelope(reset.msg)
                    /\ last' = Last("resetPassword", "catch")
    /\ UNCHANGED <<pageVars, impl, sbReady, sess, profiles, metrics, ls, ss, authq, lctx>>

\* updatePasswordWithToken(newPassword), fronted by the API operation of
\* the same name
UpdatePasswordWithToken(update) ==
    /\ evts' = <<>>
    /\ IF getSupabase = "null"
       THEN /\ ret' = NotInitialized
            /\ last' = Last("updatePasswordWithToken", "notInitialized")
            /\ calls' = <<>>
       ELSE /\ calls' = <<Call("auth.updateUser", Null, update)>>
            /\ IF update.r = "ok"
               THEN /\ ret' = [success |-> TRUE]
                    /\ last' = Last("updatePasswordWithToken", "ok")
               ELSE IF update.r = "error"
               THEN /\ ret' = [success |-> FALSE, error |-> update.msg]
                    /\ last' = Last("updatePasswordWithToken", "error")
               ELSE /\ ret' = catchEnvelope(update.msg)
                    /\ last' = Last("updatePasswordWithToken", "catch")
    /\ UNCHANGED <<pageVars, impl, sbReady, sess, profiles, metrics, ls, ss, authq, lctx>>

\* API.getUserProfile()
GetUserProfile(getUser, select) ==
    /\ evts' = <<>>
    /\ LET puser == getCurrentUser(getUser)
           c1 == getCurrentUserCalls(getUser)
           out == IF puser = Null THEN Ok ELSE SelectSingle(puser.id, select)
           c2 == IF puser = Null THEN c1
                 ELSE Append(c1, Call("profiles.select", [id |-> puser.id], out))
           profile == IF puser # Null /\ out.r = "ok" THEN profiles[puser.id] ELSE Null
       IN  /\ calls' = c2
           /\ IF profile = Null
              THEN /\ ret' = ProfileNotFound
                   /\ last' = Last("getUserProfile", "notFound")
              ELSE /\ ret' = [success |-> TRUE, data |-> profile]
                   /\ last' = Last("getUserProfile", "ok")
    /\ UNCHANGED <<pageVars, impl, sbReady, sess, profiles, metrics, ls, ss, authq, lctx>>

(***************************************************************************)
(* The operations as the page invokes them: one at a time, each awaited    *)
(* (Quiet); a request that is not issued has no outcome to draw.           *)
(***************************************************************************)
Quiet == \A u \in Users : lctx[u].pc = "idle"

DoSetCurrentUser == Quiet /\ \E full \in BOOLEAN : SetCurrentUser("u1", full)

DoLogout == Quiet /\ \E o \in AuthOutcomes : Logout(o)

DoLogin == Quiet /\ \E u \in Users, o \in AuthOutcomes : LoginSignIn(u, o)

DoLoginGetUser == \E u \in Users, o \in AuthOutcomes, full \in BOOLEAN : LoginGetUser(u, o, full)

DoLoginSelect == \E u \in Users, o \in TableOutcomes, full \in BOOLEAN : LoginSelect(u, o, full)

\* register for the user u, with the outcome of each request it issues
RegisterAs(u) ==
    \E o1 \in SignUpOutcomes :
      \E ws \in Drawn(sbReady /\ o1 = Ok, BOOLEAN, FALSE) :
        \E o2 \in Drawn(sbReady /\ o1 = Ok /\ registerWaitsForSession, AuthOutcomes, Ok) :
          \E o3 \in Drawn(sbReady /\ o1 = Ok /\ o2.r # "throw", InsertOutcomes, Ok) :
            \E o4 \in Drawn(sbReady /\ o1 = Ok /\ o2.r # "throw" /\ o3.r = "error"
                              /\ registerCleansUp, AdminOutcomes, Ok) :
               Register(u, o1, ws, o2, o3, o4)

DoRegister == Quiet /\ \E u \in Users : RegisterAs(u)

DoChangePassword ==
    Quiet /\ \E o1 \in Drawn(sbReady, AuthOutcomes, Ok) :
      \E o2 \in Drawn(sbReady /\ o1 = Ok /\ sess # Null,
                       {Ok, Err(MsgInvalid)} \cup AnyThrowOutcomes, Ok) :
        \E o3 \in Drawn(sbReady /\ o1 = Ok /\ sess # Null
                          /\ ~stopsAfterFailedVerification(o2) /\ o2.r # "throw",
                         UpdateUserOutcomes, Ok) :
           ChangePassword(o1, o2, o3)

DoUpdateProfile ==
    Quiet /\ \E first \in FirstNames, o1 \in Drawn(sbReady, AuthOutcomes, Ok) :
      \E o2 \in Drawn(sbReady /\ o1 = Ok /\ sess # Null, TableOutcomes, Ok) :
         UpdateProfile(first, o1, o2)

\* the passwords a caller passes to deleteAccount
Passwords == {Str("pw"), Str("wrong")}

DoDeleteAccount ==
    Quiet /\ \E o1 \in Drawn(sbReady, AuthOutcomes, Ok) :
      \E os \in Drawn(sbReady /\ o1 = Ok /\ sess # Null, AuthOutcomes, Ok) :
        \E o2 \in Drawn(sbReady /\ o1 = Ok /\ sess # Null, BackendOutcomes, Ok) :
          \E o3 \in Drawn(sbReady /\ o1 = Ok /\ sess # Null
                            /\ ~returnsOnBackendFailure(o2), AuthOutcomes, Ok) :
            \E password \in Passwords :
               DeleteAccount(password, o1, os, o2, o3)

DoGetProfile ==
    Quiet /\ \E o1 \in Drawn(sbReady, AuthOutcomes, Ok) :
      \E o2 \in Drawn(sbReady /\ o1 = Ok /\ sess # Null, AuthOutcomes, Ok) :
        \E o3 \in Drawn(sbReady /\ o1 = Ok /\ o2 = Ok /\ sess # Null, TableOutcomes, Ok) :
           GetProfile(o1, o2, o3)

DoGetMetrics ==
    Quiet /\ \E o1 \in Drawn(sbReady, AuthOutcomes, Ok) :
      \E o2 \in Drawn(sbReady /\ o1 = Ok /\ sess # Null, TableOutcomes, Ok) :
         GetMetrics(o1, o2)

DoAddMetric ==
    Quiet /\ \E id \in MetricIds, claimed \in Users, o1 \in Drawn(sbReady, AuthOutcomes, Ok) :
      \E o2 \in Drawn(sbReady /\ o1 = Ok /\ sess # Null, TableOutcomes, Ok) :
         AddMetric(id, claimed, o1, o2)

DoDeleteMetric ==
    Quiet /\ \E id \in MetricIds, o1 \in Drawn(sbReady, AuthOutcomes, Ok) :
      \E o2 \in Drawn(sbReady /\ o1 = Ok /\ sess # Null, TableOutcomes, Ok) :
         DeleteMetric(id, o1, o2)

DoResetPassword ==
    Quiet /\ \E o \in Drawn(sbReady, AuthOutcomes, Ok) : ResetPassword(o)

DoUpdatePasswordWithToken ==
    Quiet /\ \E o \in Drawn(sbReady, UpdateUserOutcomes, Ok) : UpdatePasswordWithToken(o)

DoGetUserProfile ==
    Quiet /\ \E o1 \in Drawn(sbReady, AuthOutcomes, Ok) :
      \E o2 \in Drawn(sbReady /\ o1 = Ok /\ sess # Null, TableOutcomes, Ok) :
         GetUserProfile(o1, o2)

(***************************************************************************)
(* Spec: the Auth Session Manager.  The auth-state listener runs whenever  *)
(* a notification is pending, also between the requests of a login.        *)
(***************************************************************************)
Next ==
    \/ DoSetCurrentUser
    \/ AuthStateListener
    \/ DoLogout
    \/ DoLogin
    \/ DoLoginGetUser
    \/ DoLoginSelect
    \/ DoRegister
    \/ DoChangePassword
    \/ DoDeleteAccount

Spec == Init /\ [][Next]_vars

(***************************************************************************)
(* SpecAPI: the API facade and the manager operations it fronts, on a      *)
(* page that loaded auth.js or its second copy.                            *)
(***************************************************************************)
NextAPI ==
    \/ AuthStateListener
    \/ DoLogout
    \/ DoLogin
    \/ DoLoginGetUser
    \/ DoLoginSelect
    \/ DoChangePassword
    \/ DoUpdateProfile
    \/ DoDeleteAccount
    \/ DoGetProfile
    \/ DoGetMetrics
    \/ DoAddMetric
    \/ DoDeleteMetric
    \/ DoResetPassword
    \/ DoUpdatePasswordWithToken
    \/ DoGetUserProfile

SpecAPI == Init /\ [][NextAPI]_vars

(***************************************************************************)
(* SpecEnvelope: every operation of the manager and of the facade that     *)
(* returns an envelope.  The page awaits each operation; one person uses   *)
(* the page, who has no profile row before registering.                    *)
(***************************************************************************)
Visitor == "u2"

NextEnvelope ==
    \/ AuthStateListener
    \/ DoLogout
    \/ Quiet /\ \E o \in AuthOutcomes : LoginSignIn(Visitor, o)
    \/ DoLoginGetUser
    \/ DoLoginSelect
    \/ Quiet /\ RegisterAs(Visitor)
    \/ DoChangePassword
    \/ DoUpdateProfile
    \/ DoDeleteAccount
    \/ DoResetPassword
    \/ DoUpdatePasswordWithToken
    \/ DoGetProfile
    \/ DoGetUserProfile
    \/ DoGetMetrics
    \/ DoAddMetric
    \/ DoDeleteMetric

SpecEnvelope == Init /\ [][NextEnvelope]_vars

(***************************************************************************)
(* SpecRace: login() calls for different users, logout() and the listener  *)
(* interleave freely at every request of a login.                          *)
(***************************************************************************)
NextRace ==
    \/ AuthStateListener
    \/ \E o \in AuthOutcomes : Logout(o)
    \/ \E u \in Users, o \in AuthOutcomes : LoginSignIn(u, o)
    \/ DoLoginGetUser
    \/ DoLoginSelect

SpecRace == Init /\ [][NextRace]_vars

(***************************************************************************)
(* StorageManager: the cache store of the analysis data, in every tab.     *)
(***************************************************************************)
KEY == "mindspend_unified_analysis"

Num(n) == [k |-> "number", n |-> n]
Bool(b) == [k |-> "boolean", b |-> b]
Analysis(n) == [k |-> "analysis", total |-> Num(n)]
Circular == [k |-> "circular"]      \* an object that refers to itself

\* values that JSON can represent, and all the values save is called with
JSONValues == {Null, Num(0), Str(""), Analysis(1)}
SaveValues == JSONValues \cup {Undefined, Circular}

\* JSON.stringify(v) throws a TypeError
StringifyThrows(v) == v = Circular

\* if (data): a string is truthy unless it is empty; null is falsy
Truthy(text) == text # Absent /\ text # [raw |-> ""]

\* load() that tests the parsed value instead of the stored text
load_testsParsed(store) ==
    LET data == store[KEY]
    IN  IF data = Absent \/ ParseThrows(data) THEN Null
        ELSE IF JSONparse(data) \in {Null, Num(0), Str(""), Bool(FALSE)} THEN Null
        ELSE JSONparse(data)

\* load()
load(store) ==
    LET data == store[KEY]
    IN  IF ~Truthy(data) THEN Null
        ELSE IF ParseThrows(data) THEN Null
        ELSE JSONparse(data)

\* exists()
exists(store) == store[KEY] # Absent

\* the authentication state that the cache store never touches
authVars == <<impl, sbReady, sess, profiles, metrics, ss, authq, lctx>>

\* the platform queues a storage event in every other tab when a value changed
Deliver(from, key, old, new) ==
    [t \in Tabs |-> IF t # from /\ old # new
                    THEN Append(inbox[t], [key |-> key, newValue |-> new])
                    ELSE inbox[t]]

HasRoom(from) == \A t \in Tabs \ {from} : Len(inbox[t]) < MaxInbox

\* save() whose dispatch stands before the write
savedEvents_beforeWrite(data, failed) == <<Event("storageUpdated", data)>>

\* the events save(data) dispatches: none when stringify or setItem threw
savedEvents(data, failed) ==
    IF failed THEN <<>> ELSE <<Event("storageUpdated", data)>>

\* save(data) in tab t; full: setItem throws (quota exceeded)
Save(t, data, full) ==
    /\ HasRoom(t)
    /\ LET failed == StringifyThrows(data) \/ full
           input == [tab |-> t, data |-> data, full |-> full, before |-> ls[KEY]]
           events == savedEvents(data, failed)
       IN  /\ IF failed
              THEN /\ UNCHANGED <<ls, inbox>>
                   /\ last' = LastOf("save", "catch", input)
              ELSE /\ ls' = setItem(ls, KEY, JSONstringify(data))
                   /\ inbox' = Deliver(t, KEY, ls[KEY], ls'[KEY])
                   /\ last' = LastOf("save", "ok", input)
           /\ evts' = events
           /\ seen' = IF events = <<>> THEN seen
                      ELSE [seen EXCEPT ![t] = events[1].detail]
    /\ ret' = Undefined
    /\ calls' = <<>>
    /\ UNCHANGED <<authVars, nav>>

\* load() in tab t
Load(t) ==
    /\ ret' = load(ls)
    /\ last' = LastOf("load", IF Truthy(ls[KEY]) /\ ParseThrows(ls[KEY])
                              THEN "catch" ELSE "ok", [tab |-> t])
    /\ calls' = <<>>
    /\ evts' = <<>>
    /\ UNCHANGED <<authVars, pageVars, ls>>

\* exists() in tab t
Exists(t) ==
    /\ ret' = Bool(exists(ls))
    /\ last' = LastOf("exists", "ok", [tab |-> t])
    /\ calls' = <<>>
    /\ evts' = <<>>
    /\ UNCHANGED <<authVars, pageVars, ls>>

\* clear() that dispatches nothing
clearedEvents_none == <<>>

\* the event clear() dispatches
clearedEvents == <<Event("storageCleared", Undefined)>>

\* clear() in tab t
Clear(t) ==
    /\ HasRoom(t)
    /\ ls' = removeItem(ls, KEY)
    /\ inbox' = Deliver(t, KEY, ls[KEY], Absent)
    /\ evts' = clearedEvents
    /\ last' = LastOf("clear", "ok", [tab |-> t, before |-> ls[KEY]])
    /\ ret' = Undefined
    /\ calls' = <<>>
    /\ UNCHANGED <<authVars, seen, nav>>

\* the listener that rebroadcasts every notification, whatever its key
syncsKey_any(key) == TRUE

\* if (e.key === StorageManager.KEY)
syncsKey(key) == key = KEY

\* a listener that passes the missing value on as undefined
ParseNewValue_undefined(text) == IF text = Absent THEN Undefined ELSE JSONparse(text)

\* JSON.parse(e.newValue): null is parsed as the text "null"
ParseNewValue(text) == IF text = Absent THEN Null ELSE JSONparse(text)

\* the 'storage' listener of tab t, run for its oldest notification
StorageListener(t) ==
    /\ inbox[t] # <<>>
    /\ LET e == Head(inbox[t])
           input == [tab |-> t, key |-> e.key, newValue |-> e.newValue]
       IN  /\ inbox' = [inbox EXCEPT ![t] = Tail(inbox[t])]
           /\ IF ~syncsKey(e.key)
              THEN /\ evts' = <<>>
                   /\ UNCHANGED seen
                   /\ last' = LastOf("storageListener", "otherKey", input)
              ELSE IF e.newValue # Absent /\ ParseThrows(e.newValue)
              THEN /\ evts' = <<>>
                   /\ UNCHANGED seen
                   /\ last' = LastOf("storageListener", "throw", input)
              ELSE /\ evts' = <<Event("storageUpdated", ParseNewValue(e.newValue))>>
                   /\ seen' = [seen EXCEPT ![t] = ParseNewValue(e.newValue)]
                   /\ last' = LastOf("storageListener", "ok", input)
    /\ ret' = Undefined
    /\ calls' = <<>>
    /\ UNCHANGED <<authVars, ls, nav>>

\* setCurrentUser(userData) in tab t: a write of another key
TabSetCurrentUser(t, u) ==
    /\ HasRoom(t)
    /\ ls' = setItem(ls, "auth_user", JSONstringify(UserObj(u)))
    /\ inbox' = Deliver(t, "auth_user", ls["auth_user"], ls'["auth_user"])
    /\ evts' = <<Event("authUserUpdated", UserObj(u))>>
    /\ last' = LastOf("setCurrentUser", "ok", [tab |-> t])
    /\ ret' = Undefined
    /\ calls' = <<>>
    /\ UNCHANGED <<authVars, seen, nav>>

\* e.key of the notification of a whole-storage clear: null
NullKey == "(null)"

\* localStorage.clear() of confirmLogout in tab t: one notification, key null
TabClearsStorage(t) ==
    /\ HasRoom(t)
    /\ ls' = EmptyStore
    /\ inbox' = [o \in Tabs |-> IF o # t /\ ls # EmptyStore
                                THEN Append(inbox[o], [key |-> NullKey, newValue |-> Absent])
                                ELSE inbox[o]]
    /\ evts' = <<>>
    /\ last' = LastOf("localStorage.clear", "ok", [tab |-> t])
    /\ ret' = Undefined
    /\ calls' = <<>>
    /\ UNCHANGED <<authVars, seen, nav>>

(***************************************************************************)
(* SpecStorage: the cache store used from two tabs; a notification is      *)
(* handled before the next write to the storage is started.                *)
(***************************************************************************)
InitPage == Init /\ impl = "auth.js" /\ sbReady /\ ls = EmptyStore

Delivered == \A t \in Tabs : inbox[t] = <<>>

NextStorage ==
    \/ \E t \in Tabs : StorageListener(t)
    \/ Delivered /\ \E t \in Tabs, v \in SaveValues, full \in BOOLEAN : Save(t, v, full)
    \/ \E t \in Tabs : Load(t)
    \/ \E t \in Tabs : Exists(t)
    \/ Delivered /\ \E t \in Tabs : Clear(t)
    \/ Delivered /\ \E t \in Tabs, u \in Users : TabSetCurrentUser(t, u)
    \/ Delivered /\ \E t \in Tabs : TabClearsStorage(t)

SpecStorage == InitPage /\ [][NextStorage]_vars

(***************************************************************************)
(* SpecTabs: two tabs save JSON values, the writes succeed, and the        *)
(* notifications are delivered at any later time.                          *)
(***************************************************************************)
NextTabs ==
    \/ \E t \in Tabs : StorageListener(t)
    \/ \E t \in Tabs, v \in JSONValues : Save(t, v, FALSE)

SpecTabs == InitPage /\ [][NextTabs]_vars

(***************************************************************************)
(* Navigation: the bar that every page builds when it has loaded.          *)
(***************************************************************************)
\* email.split('@')[0]
LocalPart(email) ==
    IF email = "a@x.com" THEN "a"
    ELSE IF email = "bob@example.com" THEN "bob"
    ELSE email

\* first + ' ' + last
FullName(firstName, lastName) == [k |-> "string", s |-> firstName, rest |-> lastName]

Guest == Str("Guest")

\* the string that getItem returned (the text itself)
StoredString(text) == IF "raw" \in DOMAIN text THEN text.raw ELSE "(json)"

\* AuthManager.getCurrentProfile(): the row it returns
getCurrentProfile(getUser, select) ==
    LET user == getCurrentUser(getUser)
    IN  IF user = Null THEN Null
        ELSE IF SelectSingle(user.id, select).r = "ok" THEN profiles[user.id]
        ELSE Null

getCurrentProfileCalls(getUser, select) ==
    LET user == getCurrentUser(getUser)
    IN  IF user = Null THEN getCurrentUserCalls(getUser)
        ELSE Append(getCurrentUserCalls(getUser),
                    Call("profiles.select", [id |-> user.id],
                         SelectSingle(user.id, select)))

\* the name a profile row gives, or Undefined when it gives none
profileName(profile, user) ==
    IF profile.first_name # "" /\ profile.last_name # ""
    THEN FullName(profile.first_name, profile.last_name)
    ELSE IF profile.first_name # "" THEN Str(profile.first_name)
    ELSE IF profile.username # "" THEN Str(profile.username)
    ELSE IF user # Null /\ user.email # "" THEN Str(LocalPart(user.email))
    ELSE Undefined

\* whether loadUserProfileNameData asks the collaborator for the profile
asksProfile(store, user) ==
    /\ ~Truthy(store["mindspend_firstName"])
    /\ ~Truthy(store["mindspend_username"])
    /\ user # Null

\* loadUserProfileNameData(): the displayName it leaves; user is this.user
\* when it runs, before is this.displayName, profile the row fetched
loadUserProfileNameData(store, user, before, profile) ==
    LET storedFirstName == store["mindspend_firstName"]
        storedLastName == store["mindspend_lastName"]
        storedUsername == store["mindspend_username"]
    IN  IF Truthy(storedFirstName) /\ Truthy(storedLastName)
        THEN FullName(StoredString(storedFirstName), StoredString(storedLastName))
        ELSE IF Truthy(storedFirstName) THEN Str(StoredString(storedFirstName))
        ELSE IF Truthy(storedUsername) THEN Str(StoredString(storedUsername))
        ELSE IF user # Null /\ profile # Null
        THEN (IF profileName(profile, user) = Undefined THEN before
              ELSE profileName(profile, user))
        ELSE IF user # Null /\ user.email # "" THEN Str(LocalPart(user.email))
        ELSE Guest

\* generateNavHTML(): the text of the user-name element
generateNavHTML(displayName, user) ==
    IF displayName # Undefined /\ displayName # Str("") THEN displayName
    ELSE IF user # Null /\ user.email # "" THEN Str(LocalPart(user.email))
    ELSE Guest

\* Navigation.init(), run once when the page has loaded
NavInit(getUser0, select, getUser) ==
    /\ nav.userName = Undefined
    /\ LET c1 == IF asksProfile(ls, nav.user)
                 THEN getCurrentProfileCalls(getUser0, select) ELSE <<>>
           profile == IF asksProfile(ls, nav.user)
                      THEN getCurrentProfile(getUser0, select) ELSE Null
           displayName == loadUserProfileNameData(ls, nav.user, nav.displayName, profile)
           user == getCurrentUser(getUser)
       IN  /\ nav' = [user |-> user, displayName |-> displayName,
                      userName |-> generateNavHTML(displayName, user)]
           /\ calls' = c1 \o getCurrentUserCalls(getUser)
    /\ last' = Last("Navigation.init", "ok")
    /\ ret' = Undefined
    /\ evts' = <<>>
    /\ UNCHANGED <<authVars, ls, seen, inbox>>

\* the browser leaves the page and loads another one: its scripts start anew
PageLoad ==
    /\ nav.userName # Undefined
    /\ nav' = NavigationObject
    /\ last' = Last("pageLoad", "ok")
    /\ ret' = Undefined
    /\ calls' = <<>>
    /\ evts' = <<>>
    /\ UNCHANGED <<authVars, ls, seen, inbox>>

DoNavInit ==
    Quiet /\ \E o0 \in Drawn(sbReady /\ asksProfile(ls, nav.user), AuthOutcomes, Ok) :
      \E o1 \in Drawn(sbReady /\ asksProfile(ls, nav.user) /\ o0 = Ok /\ sess # Null,
                       TableOutcomes, Ok) :
        \E o2 \in Drawn(sbReady, AuthOutcomes, Ok) :
           NavInit(o0, o1, o2)

(***************************************************************************)
(* Navigation.confirmLogout() on the page of tab t: AuthManager.logout()   *)
(* when the page has an AuthManager, localStorage.clear(), goToLogin(); a  *)
(* rejection inside the try block goes to the catch block, which only      *)
(* redirects.  The page is left: the next one has a fresh Navigation.      *)
(***************************************************************************)
\* the envelope AuthManager.logout() resolves to
logoutResult(signOut) ==
    IF getSupabase = "null" THEN NotInitialized
    ELSE IF signOut.r = "ok" THEN [success |-> TRUE]
    ELSE catchEnvelope(signOut.msg)

\* confirmLogout that skips localStorage.clear()
localStorageClear_skipped(store) == store

\* localStorage.clear(): the store afterwards
localStorageClear(store) == EmptyStore

ConfirmLogout(t, hasAuthManager, signOut) ==
    /\ HasRoom(t)
    /\ (hasAuthManager /\ sbReady) => CanNotify
    /\ LET asked == hasAuthManager /\ getSupabase # "null"
           signedOut == asked /\ signOut.r = "ok"
           result == IF hasAuthManager THEN logoutResult(signOut) ELSE Undefined
           resolved == ~hasAuthManager \/ IsResolved(result)
           afterLogout == IF signedOut THEN clearCurrentUser(ls) ELSE ls
           afterClear == IF resolved THEN localStorageClear(afterLogout)
                         ELSE afterLogout
       IN  /\ calls' = IF asked THEN <<Call("auth.signOut", Null, signOut)>> ELSE <<>>
           /\ sess' = IF signedOut THEN Null ELSE sess
           /\ authq' = IF signedOut THEN Notify(authq, "SIGNED_OUT", Null) ELSE authq
           /\ evts' = IF signedOut
                      THEN clearCurrentUserEvents \o <<Event("authUserCleared", Undefined)>>
                      ELSE <<>>
           /\ ls' = afterClear
           /\ inbox' = [o \in Tabs |->
                          IF o # t /\ resolved /\ ls # EmptyStore
                          THEN Append(inbox[o], [key |-> NullKey, newValue |-> Absent])
                          ELSE inbox[o]]
           /\ last' = LastOf("confirmLogout",
                             IF resolved THEN "goToLogin" ELSE "catch goToLogin",
                             [tab |-> t, logout |-> result])
    /\ ret' = Undefined
    /\ nav' = NavigationObject
    /\ UNCHANGED <<impl, sbReady, profiles, metrics, ss, lctx, seen>>

DoConfirmLogout ==
    Quiet /\ \E has \in BOOLEAN :
      \E o \in Drawn(has /\ sbReady, AuthOutcomes, Ok) : ConfirmLogout("A", has, o)

(***************************************************************************)
(* SpecNav: pages of the site load, build their navigation bar, and sign   *)
(* users in and out.                                                       *)
(***************************************************************************)
NextNav ==
    \/ AuthStateListener
    \/ DoLogout
    \/ DoLogin
    \/ DoLoginGetUser
    \/ DoLoginSelect
    \/ DoNavInit
    \/ Quiet /\ PageLoad
    \/ DoConfirmLogout
    \/ \E t \in Tabs : StorageListener(t)

SpecNav == Init /\ [][NextNav]_vars

(***************************************************************************)
(* The properties of the specification, one per claim.                     *)
(***************************************************************************)
HasCall(fn) == \E i \in 1..Len(calls) : calls[i].fn = fn

CallCount(fn) == Cardinality({i \in 1..Len(calls) : calls[i].fn = fn})

HasCallResult(fn, res) ==
    \E i \in 1..Len(calls) : calls[i].fn = fn /\ calls[i].res = res

HasEvent(type) == \E i \in 1..Len(evts) : evts[i].type = type

\* an operation has just returned an envelope
Returned(op) == last.op = op /\ last.path # "step" /\ ret # Undefined

RequiresLogin(env) == "requiresLogin" \in DOMAIN env /\ env.requiresLogin

IdentityKeys ==
    {"currentUser", "userProfile", "auth_user",
     "mindspend_firstName", "mindspend_lastName", "mindspend_username"}

\* C1: whenever logout() has returned after sb.auth.signOut() came back with
\* an error, auth_user and userProfile are absent from localStorage and an
\* authUserCleared event was dispatched.
C1_LogoutClearsOnSignOutError ==
    (Returned("logout") /\ HasCallResult("auth.signOut", "error")) =>
        /\ ls["auth_user"] = Absent
        /\ ls["userProfile"] = Absent
        /\ HasEvent("authUserCleared")

\* C2: after logout() has returned success, every identity, profile and
\* display-field key is absent from localStorage and getCachedUserData()
\* returns {user: null, profile: null}.
C2_LogoutRemovesEveryIdentityKey ==
    (Returned("logout") /\ ret.success) =>
        /\ \A key \in IdentityKeys : ls[key] = Absent
        /\ getCachedUserData(ls) = [user |-> Null, profile |-> Null]

\* C3: whenever deleteAccount() has returned after its authentication check
\* passed, the local wipe is complete: auth_user, userProfile and every key
\* of keysToDelete are absent and sessionStorage is empty.
C3_DeleteAccountAlwaysWipes ==
    (Returned("deleteAccount") /\ HasCall("auth.getSession")) =>
        /\ \A key \in {"auth_user", "userProfile"} \cup keysToDelete : ls[key] = Absent
        /\ ss = FALSE

\* the profile getCurrentProfile() handed to login: the selected row, or null
FetchedProfile ==
    LET c == calls[Len(calls)]
    IN  IF c.fn = "profiles.select" /\ c.res = "ok" THEN profiles[c.arg.id] ELSE Null

\* C4: when login() has returned success, localStorage holds the signed-in
\* user under currentUser and the fetched profile under userProfile, login
\* dispatched exactly one event, authUserUpdated with {user, profile}, and
\* the envelope is {success: true, user, profile} with those values.
C4_LoginSuccessStoresAndReports ==
    (Returned("login") /\ ret.success) =>
        /\ ret = [success |-> TRUE, user |-> calls[1].arg, profile |-> FetchedProfile]
        /\ calls[1].fn = "auth.signInWithPassword" /\ calls[1].res = "ok"
        /\ ls["currentUser"] = [json |-> ret.user]
        /\ ls["userProfile"] = [json |-> ret.profile]
        /\ getCachedUserData(ls) = [user |-> ret.user, profile |-> ret.profile]
        /\ evts = <<Event("authUserUpdated",
                          [user |-> ret.user, profile |-> ret.profile])>>

C4_Witness ==
    /\ Returned("login") /\ ret.success
    /\ ret.profile # Null
    /\ ls["userProfile"] = [json |-> ProfileRow("u1", "")]

\* C5: a step in which login() returns after signInWithPassword came back
\* with an error returns {success: false, error: <that message>}, issues no
\* other request, leaves localStorage and the session as they were and
\* dispatches no event.
C5_LoginFailureChangesNothing ==
    [][(Returned("login")' /\ calls' # <<>> /\ calls'[1].res = "error") =>
          /\ ret' = [success |-> FALSE, error |-> calls'[1].msg]
          /\ Len(calls') = 1
          /\ calls'[1].fn = "auth.signInWithPassword"
          /\ ls' = ls
          /\ sess' = sess
          /\ evts' = <<>>]_vars

C5_Witness ==
    /\ Returned("login") /\ calls # <<>> /\ calls[1].res = "error"
    /\ ret = [success |-> FALSE, error |-> MsgInvalid]
    /\ ls["currentUser"] # Absent

\* C6: logout() invoked with no active session returns {success: true},
\* issues no request to the collaborator and leaves the identity cache empty.
C6_AnonymousLogoutIsNoOpSuccess ==
    (Returned("logout") /\ last.anon) =>
        /\ ret = [success |-> TRUE]
        /\ calls = <<>>
        /\ \A key \in {"currentUser", "userProfile", "auth_user"} : ls[key] = Absent

\* C7: when changePassword() has returned after the verification sign-in
\* came back with an error, the envelope is a failure carrying the
\* verification message and auth.updateUser was not called.
C7_WrongCurrentPasswordStopsBeforeUpdate ==
    (Returned("changePassword") /\ HasCallResult("auth.signInWithPassword", "error")) =>
        /\ ret \in {[success |-> FALSE, error |-> MsgIncorrect],
                    [success |-> FALSE, error |-> MsgIncorrectRetry]}
        /\ ~HasCall("auth.updateUser")

C7_Witness ==
    /\ Returned("changePassword")
    /\ HasCallResult("auth.signInWithPassword", "error")
    /\ sess # Null
    /\ Len(calls) = 2

\* the messages register may derive from a failed profile insert
ProfileFailureMessages(msg) == {msg, MsgPolicy, MsgAlready}

\* C8: when register() has returned after signUp succeeded and the profile
\* insert came back with an error, auth.admin.deleteUser was called exactly
\* once and the envelope is {success: false, error} with an error derived
\* from the insert's message.
C8_RegisterCompensatesOnce ==
    (Returned("register") /\ HasCallResult("profiles.insert", "error")) =>
        /\ CallCount("auth.admin.deleteUser") = 1
        /\ DOMAIN ret = {"success", "error"}
        /\ ret.success = FALSE
        /\ \E i \in 1..Len(calls) :
              /\ calls[i].fn = "profiles.insert"
              /\ ret.error \in ProfileFailureMessages(calls[i].msg)

\* C9: when register() has returned after signUp succeeded and the profile
\* insert came back with an error, the client is anonymous: there is no
\* active session and no Session User under currentUser.
C9_FailedRegisterEndsAnonymous ==
    (Returned("register") /\ HasCallResult("profiles.insert", "error")) =>
        /\ sess = Null
        /\ ls["currentUser"] = Absent

\* C10: an envelope carries requiresLogin: true exactly when the operation
\* returned at its not-authenticated check, and then the check failed
\* because there is no active session: the client exists and getUser
\* neither returned an error nor threw.
C10_RequiresLoginIffNoSession ==
    (ret # Undefined /\ last.path # "step") =>
        /\ RequiresLogin(ret) <=> last.path = "notAuthenticated"
        /\ RequiresLogin(ret) =>
              /\ sbReady
              /\ last.anon
              /\ calls # <<>> /\ calls[1].fn = "auth.getUser" /\ calls[1].res = "ok"

EnvelopeOps ==
    {"register", "login", "logout", "changePassword", "updateProfile",
     "resetPassword", "updatePasswordWithToken", "deleteAccount",
     "getProfile", "getUserProfile", "getMetrics", "addMetric", "deleteMetric"}

IsEnvelope(env) == "success" \in DOMAIN env /\ env.success \in BOOLEAN

(***************************************************************************)
(* C11: whatever the outcome of each collaborator request (an error        *)
(* result, a thrown exception, no client), every envelope-returning        *)
(* operation of the manager and of the facade that has returned has        *)
(* returned an object with a boolean success field: nothing is rejected.   *)
(***************************************************************************)
C11_EveryOperationReturnsAnEnvelope ==
    last.op \in EnvelopeOps /\ last.path # "step" => IsEnvelope(ret)

\* a request threw inside an operation, which returned a failure envelope
C11_Witness ==
    /\ last.op \in EnvelopeOps
    /\ last.path = "catch"
    /\ \E i \in 1..Len(calls) : calls[i].res = "throw"
    /\ IsEnvelope(ret)
    /\ ret.success = FALSE

MetricsRequests == {"metrics.select", "metrics.insert", "metrics.delete"}

(***************************************************************************)
(* C13: every request on the metrics table (select, insert, delete) is     *)
(* scoped by the id of the user that the same invocation obtained from     *)
(* the session with getUser, and so is the row an insert creates; a        *)
(* user_id the caller puts into metricData changes nothing.                *)
(***************************************************************************)
C13_MetricsRequestsScopedBySessionUser ==
    /\ \A i \in 1..Len(calls) :
          calls[i].fn \in MetricsRequests =>
             /\ sess # Null
             /\ calls[i].arg.user_id = sess.id
             /\ calls[1].fn = "auth.getUser" /\ calls[1].res = "ok"
    /\ last.op = "addMetric" /\ ret.success => ret.data.user_id = sess.id
    /\ last.op = "getMetrics" /\ ret.success =>
          \A m \in ret.data : m.user_id = sess.id

\* a row was inserted for a caller who put somebody else's id in metricData
C13_Witness ==
    /\ last.op = "addMetric"
    /\ ret.success
    /\ sess # Null
    /\ last.input.user_id # sess.id
    /\ HasCallResult("metrics.insert", "ok")

C15_ClearEmptiesTheStore ==
    [][/\ last'.op = "clear" =>
             /\ load(ls') = Null
             /\ ~exists(ls')
             /\ evts' = <<Event("storageCleared", Undefined)>>
             /\ ret' = Undefined
             /\ ls[KEY] = Absent => ls' = ls
             /\ \A key \in Keys \ {KEY} : ls'[key] = ls[key]
       /\ (last.op = "clear" /\ last'.op = "load") => ret' = Null
       /\ (last.op = "clear" /\ last'.op = "exists") => ret' = Bool(FALSE)
      ]_vars

\* clear() has removed a saved analysis
C15_Witness ==
    /\ last.op = "clear"
    /\ last.input.before = [json |-> Analysis(1)]
    /\ ls[KEY] = Absent
    /\ HasEvent("storageCleared")

(***************************************************************************)
(* C16: every storage notification for the key of the store that the       *)
(* listener has handled produced exactly one storageUpdated broadcast,     *)
(* whose detail is the deserialized new value; a notification for any      *)
(* other key, or with the null key of a whole-storage clear, none.         *)
(***************************************************************************)
C16_OneBroadcastPerNotification ==
    last.op = "storageListener" =>
        IF last.input.key = KEY
        THEN /\ Len(evts) = 1
             /\ evts[1].type = "storageUpdated"
             /\ ~(last.input.newValue # Absent /\ ParseThrows(last.input.newValue))
                   => evts[1].detail = ParseNewValue(last.input.newValue)
        ELSE evts = <<>>

(***************************************************************************)
(* C17: two tabs save in any interleaving; once every storage notification *)
(* is delivered, the detail of the last storageUpdated event each tab      *)
(* observed equals the value held in the storage.                          *)
(***************************************************************************)
C17_TabsAgreeOnceDelivered ==
    Delivered => \A t \in Tabs :
                    seen[t] # NoEvent => seen[t] = ParseNewValue(ls[KEY])

(***************************************************************************)
(* C18: save(v) returns normally; when stringify or setItem threw, the     *)
(* stored text is the one from before and no storageUpdated was            *)
(* dispatched; when storageUpdated was dispatched it carries v and the     *)
(* stored text is that of v, the write having succeeded.                   *)
(***************************************************************************)
C18_FailedSaveChangesNothing ==
    last.op = "save" =>
        /\ ret = Undefined
        /\ (StringifyThrows(last.input.data) \/ last.input.full) =>
              /\ ls[KEY] = last.input.before
              /\ evts = <<>>
        /\ HasEvent("storageUpdated") =>
              /\ ~StringifyThrows(last.input.data) /\ ~last.input.full
              /\ evts = <<Event("storageUpdated", last.input.data)>>
              /\ ls[KEY] = ToStorageText(JSONstringify(last.input.data))

\* a save failed on a full storage that held an analysis
C18_Witness ==
    /\ last.op = "save"
    /\ last.input.full
    /\ last.input.before = [json |-> Analysis(1)]
    /\ ls[KEY] = [json |-> Analysis(1)]
    /\ evts = <<>>

NoDisplayFields ==
    \A key \in {"mindspend_firstName", "mindspend_lastName", "mindspend_username"} :
        ls[key] = Absent

(***************************************************************************)
(* C19: a navigation bar initialised with no stored display-name fields    *)
(* and no profile row, for an authenticated user, shows the local part of  *)
(* the user's email ('bob' for bob@example.com); it shows 'Guest' only     *)
(* when no user is authenticated.                                          *)
(***************************************************************************)
C19_NameFallsBackToEmailLocalPart ==
    last.op = "Navigation.init" /\ NoDisplayFields =>
        /\ (nav.user # Null /\ profiles[nav.user.id] = Null)
              => nav.userName = Str(LocalPart(nav.user.email))
        /\ nav.userName = Guest => nav.user = Null

(***************************************************************************)
(* C20: when login has succeeded and the cache holds the user u1 and the   *)
(* profile with username 'alice', the navigation bar that is built next    *)
(* shows 'alice'.  Stated for the most favourable case: no display field   *)
(* of an earlier visit is stored and init finds the user signed in.        *)
(***************************************************************************)
C20_NavigationShowsCachedProfileName ==
    (/\ last.op = "Navigation.init"
     /\ NoDisplayFields
     /\ nav.user # Null
     /\ getCachedUserData(ls).user # Null
     /\ getCachedUserData(ls).profile # Null
     /\ getCachedUserData(ls).user.id = "u1"
     /\ getCachedUserData(ls).profile.username = "alice")
        => nav.userName = Str("alice")

(***************************************************************************)
(* C21: after updateProfile has succeeded for a user with a profile row,   *)
(* the cached display field mindspend_firstName and the cached userProfile *)
(* hold the values of the row as it is now.                                *)
(***************************************************************************)
C21_UpdateProfileRefreshesDisplayFields ==
    (/\ last.op = "updateProfile"
     /\ ret.success
     /\ sess # Null
     /\ profiles[sess.id] # Null)
        => /\ ls["mindspend_firstName"] = [raw |-> profiles[sess.id].first_name]
           /\ ls["userProfile"] = JSONstringify(profiles[sess.id])


\* the requests whose repetition would be a retry
ListedRequests ==
    {"auth.signUp", "auth.signInWithPassword", "auth.signOut", "auth.updateUser",
     "profiles.select", "profiles.insert", "profiles.update",
     "metrics.select", "metrics.insert", "metrics.delete",
     "fetch DELETE /api/user/account"}

\* the requests that change something at the collaborator
MutatingRequests ==
    {"auth.signUp", "auth.signInWithPassword", "auth.signOut", "auth.updateUser",
     "auth.resetPasswordForEmail", "auth.admin.deleteUser",
     "profiles.insert", "profiles.update", "metrics.insert", "metrics.delete",
     "fetch DELETE /api/user/account"}

\* request j of the invocation is register's compensation for failed request i
IsCompensation(i, j) ==
    calls[i].fn = "profiles.insert" /\ calls[j].fn = "auth.admin.deleteUser"

NoRequestTwice == \A f \in ListedRequests : CallCount(f) <= 1

(***************************************************************************)
(* C22 as stated: within one invocation each listed request is issued at   *)
(* most once, and after the first failing step (any request that returned  *)
(* an error or threw) no mutating request follows except register's        *)
(* compensating deleteUser.                                                *)
(***************************************************************************)
C22_NoMutationAfterAnyFailingStep ==
    /\ NoRequestTwice
    /\ \A i \in 1..Len(calls) :
         calls[i].res # "ok"
            => \A j \in (i + 1)..Len(calls) :
                  calls[j].fn \in MutatingRequests => IsCompensation(i, j)

(***************************************************************************)
(* C22 amended: within one invocation each listed request is issued at     *)
(* most once, and once one of the listed requests has failed no mutating   *)
(* request follows except register's compensating deleteUser.  A failed    *)
(* getSession probe is not such a step: register still inserts the         *)
(* profile after it and deleteAccount still calls the backend.             *)
(***************************************************************************)
C22_NoMutationAfterFailedListedRequest ==
    /\ NoRequestTwice
    /\ \A i \in 1..Len(calls) :
         (calls[i].fn \in ListedRequests /\ calls[i].res # "ok")
            => \A j \in (i + 1)..Len(calls) :
                  calls[j].fn \in MutatingRequests => IsCompensation(i, j)

C22_Witness ==
    /\ Returned("register")
    /\ HasCallResult("profiles.insert", "error")
    /\ CallCount("auth.admin.deleteUser") = 1

C22_WitnessBackendFailed ==
    /\ Returned("deleteAccount")
    /\ HasCallResult("auth.getSession", "error")
    /\ HasCallResult("fetch DELETE /api/user/account", "error")
    /\ ~HasCall("auth.signOut")


(***************************************************************************)
(* C23: Navigation.confirmLogout always ends by redirecting to the login   *)
(* page, and whenever AuthManager.logout() resolved (with a success or a   *)
(* failure envelope) no key is left in localStorage when it redirects.     *)
(***************************************************************************)
C23_ConfirmLogoutEmptiesStorageAndRedirects ==
    last.op = "confirmLogout"
        => /\ last.path \in {"goToLogin", "catch goToLogin"}
           /\ nav = [user |-> Null, displayName |-> Undefined, userName |-> Undefined]
           /\ ("success" \in DOMAIN last.input.logout)
                 => \A k \in Keys : ls[k] = Absent

\* confirmLogout after a logout that failed, on a page whose storage held keys
C23_Witness ==
    /\ last.op = "confirmLogout"
    /\ "success" \in DOMAIN last.input.logout
    /\ ~last.input.logout.success
    /\ HasCallResult("auth.signOut", "error")
    /\ sess # Null
    /\ \E t \in Tabs : inbox[t] # <<>>


\* the value cached under key, Null when the key is absent
Cached(key) == IF "json" \in DOMAIN ls[key] THEN ls[key].json ELSE Null

(***************************************************************************)
(* C24: once the concurrent login() calls of a tab have all completed, the *)
(* cached currentUser and userProfile refer to the same user: the profile  *)
(* a login stored is never the one fetched for another call's session.     *)
(***************************************************************************)
C24_ConcurrentLoginsLeaveOneUser ==
    (/\ Returned("login")
     /\ ret.success
     /\ Quiet
     /\ Cached("currentUser") # Null
     /\ Cached("userProfile") # Null)
        => Cached("userProfile").id = Cached("currentUser").id


(***************************************************************************)
(* C25: when login() has resolved successfully with a profile and the      *)
(* pending auth-state callbacks then run, the cached userProfile is still  *)
(* the profile login fetched: the SIGNED_IN handler does not leave it      *)
(* overwritten with null.                                                  *)
(***************************************************************************)
C25_SignedInHandlerKeepsFetchedProfile ==
    [][(/\ Returned("login")
        /\ ret.success
        /\ ret.profile # Null
        /\ ls["userProfile"] = [json |-> ret.profile]
        /\ last'.op = "authStateListener"
        /\ authq' = <<>>)
           => ls'["userProfile"] = [json |-> ret.profile]]_vars


(***************************************************************************)
(* C26: login() and the auth-state handler never write the key auth_user:  *)
(* after any sequence of logins, logouts and auth-state events, without a  *)
(* call of setCurrentUser, auth_user is absent and checkAuth() is false,   *)
(* also while a session is active.                                         *)
(***************************************************************************)
C26_CheckAuthFalseWithoutSetCurrentUser ==
    /\ ls["auth_user"] = Absent
    /\ ~checkAuth(ls)

\* a login has succeeded and its SIGNED_IN event was handled
C26_Witness ==
    /\ sess # Null
    /\ last.op = "authStateListener"
    /\ Cached("currentUser") = sess
    /\ ~checkAuth(ls)


(***************************************************************************)
(* C27: deleteAccount(password) never uses its argument: what a call does  *)
(* (the requests it issues, the local and session storage it leaves, the   *)
(* session, the events, the envelope it returns) is what the same call     *)
(* with any other password would have done.                                *)
(***************************************************************************)
C27_DeleteAccountIgnoresPassword ==
    [][last'.op = "deleteAccount"
         => \A q \in Passwords :
              LET i == last'.input
                  other == deleteAccount(q, i.getUser, i.getSession, i.backend, i.signOut)
              IN  /\ calls' = other.calls
                  /\ ret' = other.ret
                  /\ ls' = other.ls
                  /\ ss' = other.ss
                  /\ sess' = other.sess
                  /\ evts' = other.evts]_vars

\* the account was deleted by a call that passed the wrong password
C27_Witness ==
    /\ Returned("deleteAccount")
    /\ last.input.password = Str("wrong")
    /\ ret.success
    /\ HasCallResult("fetch DELETE /api/user/account", "ok")
    /\ \E i \in 1..Len(calls) :
          calls[i].arg = [bearer |-> [k |-> "access_token", of |-> "u1"]]


(***************************************************************************)
(* C28 as stated: after every sequence of save(v) and clear() calls,       *)
(* exists() returns true exactly when load() returns a non-null value.     *)
(***************************************************************************)
C28_ExistsIffLoadNonNull == exists(ls) <=> (load(ls) # Null)

(***************************************************************************)
(* C28 amended: whenever load() returns a non-null value exists() returns  *)
(* true, and exists() is true with load() null exactly when the stored     *)
(* text is "null" (after save(null)) or "undefined" (after                 *)
(* save(undefined), which JSON.parse rejects).                             *)
(***************************************************************************)
C28_LoadNonNullImpliesExists ==
    /\ (load(ls) # Null) => exists(ls)
    /\ (exists(ls) /\ load(ls) = Null)
          <=> ls[KEY] \in {[json |-> Null], [raw |-> "undefined"]}

C28_Witness ==
    /\ last.op = "save" /\ last.path = "ok"
    /\ last.input.data = Undefined
    /\ exists(ls)
    /\ load(ls) = Null


(***************************************************************************)
(* C29: a tab notified that another tab removed the analysis key (the      *)
(* notification carries newValue null) rebroadcasts storageUpdated with    *)
(* detail null; storageCleared is dispatched by a local clear() only,      *)
(* never by the handling of a notification.                                *)
(***************************************************************************)
C29_RemovalRebroadcastAsNullUpdate ==
    /\ (/\ last.op = "storageListener"
        /\ last.input.key = KEY
        /\ last.input.newValue = Absent)
          => evts = <<Event("storageUpdated", Null)>>
    /\ HasEvent("storageCleared") => last.op = "clear"

C29_Witness ==
    /\ last.op = "storageListener"
    /\ last.input.key = KEY
    /\ last.input.newValue = Absent
    /\ seen[last.input.tab] = Null
    /\ ~HasEvent("storageCleared")


(***************************************************************************)
(* C30: a logout() that succeeds dispatches authUserCleared exactly twice  *)
(* (in clearCurrentUser and directly in logout) and nothing else; a        *)
(* logout() that fails (no client, sign-out error) dispatches no event     *)
(* and removes no key.                                                     *)
(***************************************************************************)
C30_LogoutDispatchesClearedTwice ==
    [][last'.op = "logout"
         => IF ret'.success
            THEN evts' = <<[type |-> "authUserCleared", detail |-> Undefined],
                           [type |-> "authUserCleared", detail |-> Undefined]>>
            ELSE evts' = <<>> /\ ls' = ls]_vars

C30_Witness ==
    /\ Returned("logout")
    /\ ret.success
    /\ Len(evts) = 2
    /\ ls["currentUser"] # Absent

C30_WitnessFailed ==
    /\ Returned("logout")
    /\ ~ret.success
    /\ HasCallResult("auth.signOut", "error")
    /\ ls["userProfile"] # Absent

====
